---- MODULE Spec2Model ----
(***************************************************************************)
(* A model of the retrieval and caching core of docling-rag:               *)
(*   - core/vector_store.py  VectorStore (build_index, search,             *)
(*     get_similarity_scores, save_index, load_index)                      *)
(*   - the shared VectorStore of the Streamlit / FastAPI front ends        *)
(*   - core/pdf_processor.py PDFProcessor (process, process_with_images)   *)
(*                                                                         *)
(* Every handler of VectorStore is a pure operator from the store's state  *)
(* and the call's arguments to the new state and the returned value; the   *)
(* actions apply these operators and record the call in `last`.            *)
(***************************************************************************)
EXTENDS Integers, Sequences, FiniteSets, TLC

VARIABLES
    store,   \* the VectorStore object: [index, chunks]
    last,    \* the most recent call on the store: its arguments and what it returned
    task,    \* SpecConc: per thread, the position in VectorStore.search and its locals;
             \* SpecAlias: the caller's list object
    fs,      \* SpecPdf: the files of the cache directory
    proc     \* SpecPdf: per caller, the position in PDFProcessor.process and its locals

vars == <<store, last, task, fs, proc>>

(***************************************************************************)
(* Bounds                                                                  *)
(***************************************************************************)
MaxLen == 2      \* longest chunk list handed to the store

(***************************************************************************)
(* Chunks, texts and the embedding model                                   *)
(***************************************************************************)
\* Chunk objects. "a" and "b" carry a .text; "bad" has no .text attribute
\* (the MALFORMED_CHUNKS / NoTextChunk of the tests).
Chunk == {"a", "b", "bad"}

HasText(c) == c # "bad"

Query == {"qa", "qb"}

\* k of search(query, chunks, k): up to one more than the longest list.
KRange == 1..(MaxLen + 1)

ChunkLists == UNION {[1..n -> Chunk] : n \in 0..MaxLen}

\* SentenceTransformer.encode on one text: a deterministic map to a vector,
\* here one-dimensional. The positions are chosen so that no query is
\* equally far from two different texts.
Embed(text) ==
    CASE text = "a"  -> 0
      [] text = "b"  -> 4
      [] text = "c"  -> 9
      [] text = "d"  -> 14
      [] text = "qa" -> 1
      [] text = "qb" -> 5

\* encoder.encode(texts): one vector per text, in order.
Encode(texts) == [i \in 1..Len(texts) |-> Embed(texts[i])]

\* Optional values: None is the empty tuple, a value v is <<v>>.
None == <<>>
Some(v) == <<v>>

\* faiss.IndexFlatL2(dimension) followed by index.add(embeddings).
IndexFlatL2(embeddings) == [ntotal |-> Len(embeddings), vecs |-> embeddings]

\* The distance faiss reports for a result slot it could not fill
\* (stands for the largest float32; larger than every real distance here).
FloatMax == 1000 * 1000

\* Squared Euclidean distance between the query vector and vector i (0-based).
L2Sqr(ix, qv, i) == (ix.vecs[i + 1] - qv) * (ix.vecs[i + 1] - qv)

\* Vector j is reported before vector i: nearer, or as near with a lower label.
Before(ix, qv, j, i) ==
    \/ L2Sqr(ix, qv, j) < L2Sqr(ix, qv, i)
    \/ L2Sqr(ix, qv, j) = L2Sqr(ix, qv, i) /\ j < i

\* The labels 0..n-1 by ascending distance to the query.
RECURSIVE NearestFirst(_, _, _)
NearestFirst(ix, qv, n) ==
    IF n = 0 THEN <<>>
    ELSE LET rest == NearestFirst(ix, qv, n - 1)
             pos  == Cardinality({p \in 1..Len(rest) : Before(ix, qv, rest[p], n - 1)})
         IN  SubSeq(rest, 1, pos) \o <<n - 1>> \o SubSeq(rest, pos + 1, Len(rest))

\* index.search(query_embedding, k) for one query: k distances and k labels
\* by ascending distance; slots beyond ntotal hold label -1.
FaissSearch(ix, qv, k) ==
    LET order == NearestFirst(ix, qv, ix.ntotal) IN
    [D |-> [r \in 1..k |-> IF r <= ix.ntotal THEN L2Sqr(ix, qv, order[r]) ELSE FloatMax],
     I |-> [r \in 1..k |-> IF r <= ix.ntotal THEN order[r] ELSE -1]]

\* Python's list[i]: in range for -len <= i < len, a negative i counts from
\* the end; anything else raises IndexError.
PyInRange(list, i) == -Len(list) <= i /\ i < Len(list)
PyItem(list, i) == IF i >= 0 THEN list[i + 1] ELSE list[Len(list) + i + 1]

(***************************************************************************)
(* VectorStore                                                             *)
(***************************************************************************)
\* __init__: no index, no chunks.
InitStore == [index |-> None, chunks |-> <<>>]

\* [chunk.text for chunk in chunks] raises AttributeError.
TextExtractionFails(chunks) == \E i \in 1..Len(chunks) : ~HasText(chunks[i])

\* The embedding provider during one call: it works; encoder.encode raises on
\* the chunk texts (if it is called on them); it raises on the query.
EncOutcome == {"ok", "texts_fail", "query_fails"}

\* build_index as it would be if the empty-input branch returned None
\* without clearing self.index and self.chunks.
BuildIndexKeepsOnEmpty(s, chunks, enc) ==
    IF chunks = <<>>
    THEN [store |-> s, ret |-> None]
    ELSE LET s1 == [s EXCEPT !.chunks = chunks] IN
         IF TextExtractionFails(chunks) \/ enc = "texts_fail"
         THEN [store |-> s1, ret |-> None]
         ELSE LET ix == IndexFlatL2(Encode(chunks)) IN
              [store |-> [s1 EXCEPT !.index = Some(ix)], ret |-> Some(ix)]

\* build_index(chunks): the new store and the returned value. `enc` says
\* whether encoder.encode(texts) raises.
BuildIndex(s, chunks, enc) ==
    IF chunks = <<>>
    THEN [store |-> [index |-> None, chunks |-> <<>>], ret |-> None]
    ELSE LET s1 == [s EXCEPT !.chunks = chunks] IN
         IF TextExtractionFails(chunks)
         THEN [store |-> s1, ret |-> None]
         ELSE IF enc = "texts_fail"
         THEN [store |-> s1, ret |-> None]
         ELSE LET ix == IndexFlatL2(Encode(chunks)) IN
              [store |-> [s1 EXCEPT !.index = Some(ix)], ret |-> Some(ix)]

\* The test that opens search and get_similarity_scores.
NeedsRebuild(s, chunks) == s.index = None \/ s.chunks # chunks

\* search(query, chunks, k): the new store, the returned list, and whether
\* build_index was called.
Search(s, query, chunks, k, enc) ==
    LET rebuilt == NeedsRebuild(s, chunks)
        b  == BuildIndex(s, chunks, enc)
        s1 == IF rebuilt THEN b.store ELSE s
    IN  IF rebuilt /\ b.ret = None
        THEN [store |-> s1, ret |-> <<>>, rebuilt |-> rebuilt]
        ELSE IF s1.index = None
        THEN [store |-> s1, ret |-> <<>>, rebuilt |-> rebuilt]
        ELSE IF enc = "query_fails"
        THEN [store |-> s1, ret |-> <<>>, rebuilt |-> rebuilt]
        ELSE LET res == FaissSearch(s1.index[1], Embed(query), k) IN
             IF \E r \in 1..k : ~PyInRange(s1.chunks, res.I[r])
             THEN [store |-> s1, ret |-> <<>>, rebuilt |-> rebuilt]
             ELSE [store |-> s1,
                   ret |-> [r \in 1..k |-> PyItem(s1.chunks, res.I[r])],
                   rebuilt |-> rebuilt]

\* A similarity score 1 / (1 + distance), kept as a fraction.
Similarity(d) == [num |-> 1, den |-> 1 + d]

\* get_similarity_scores(query, chunks): the new store and the returned list.
GetSimilarityScores(s, query, chunks, enc) ==
    LET rebuilt == NeedsRebuild(s, chunks)
        b  == BuildIndex(s, chunks, enc)
        s1 == IF rebuilt THEN b.store ELSE s
    IN  IF rebuilt /\ b.ret = None
        THEN [store |-> s1, ret |-> <<>>, rebuilt |-> rebuilt]
        ELSE IF s1.index = None
        THEN [store |-> s1, ret |-> <<>>, rebuilt |-> rebuilt]
        ELSE IF enc = "query_fails"
        THEN [store |-> s1, ret |-> <<>>, rebuilt |-> rebuilt]
        ELSE IF Len(s1.chunks) = 0
        THEN [store |-> s1, ret |-> <<>>, rebuilt |-> rebuilt]
        ELSE LET res == FaissSearch(s1.index[1], Embed(query), Len(s1.chunks)) IN
             [store |-> s1,
              ret |-> [r \in 1..Len(s1.chunks) |-> Similarity(res.D[r])],
              rebuilt |-> rebuilt]

(***************************************************************************)
(* Persistence: the two files of a saved index                             *)
(***************************************************************************)
\* What a path holds: nothing, bytes no reader accepts (a truncated or
\* damaged file), a FAISS index file, or a pickle of a chunk list.
Absent == [fmt |-> "absent"]
Garbage == [fmt |-> "garbage"]

\* faiss.write_index: the index in FAISS's native format.
WriteIndex(ix) == [fmt |-> "faiss", d |-> 1, ntotal |-> ix.ntotal, codes |-> ix.vecs]

\* faiss.read_index: fails on anything but a FAISS index file.
ReadIndexFails(file) == file.fmt # "faiss"
ReadIndex(file) == [ntotal |-> file.ntotal, vecs |-> file.codes]

\* pickle.dump / pickle.load of the chunk list.
PickleDump(chunks) == [fmt |-> "pickle", n |-> Len(chunks), items |-> chunks]
PickleLoadFails(file) == file.fmt # "pickle"
PickleLoad(file) == [i \in 1..file.n |-> file.items[i]]

\* How one write can end: the file is written; the write raises before the
\* file exists; the write raises after the file was created (a partial file).
WriteOutcome == {"ok", "raises", "raises_partial"}

\* save_index(index_path, chunks_path). `wi` and `wc` are how the write of
\* the index file and of the chunks file end. Returns the value returned and
\* what this call left at the two paths (Absent: the call wrote nothing there).
SaveIndex(s, wi, wc) ==
    IF s.index = None
    THEN [ret |-> FALSE, files |-> [index |-> Absent, chunks |-> Absent]]
    ELSE IF wi # "ok"
    THEN [ret |-> FALSE,
          files |-> [index |-> IF wi = "raises" THEN Absent ELSE Garbage,
                     chunks |-> Absent]]
    ELSE IF wc # "ok"
    THEN [ret |-> FALSE,
          files |-> [index |-> WriteIndex(s.index[1]),
                     chunks |-> IF wc = "raises" THEN Absent ELSE Garbage]]
    ELSE [ret |-> TRUE,
          files |-> [index |-> WriteIndex(s.index[1]),
                     chunks |-> PickleDump(s.chunks)]]

\* load_index as it would be if a missing file reset the store like an
\* unreadable one.
LoadIndexResetsOnMissing(s, files) ==
    IF files.index = Absent \/ files.chunks = Absent
    THEN [store |-> [index |-> None, chunks |-> <<>>], ret |-> FALSE,
          branch |-> "missing"]
    ELSE IF ReadIndexFails(files.index)
    THEN [store |-> [s EXCEPT !.index = None], ret |-> FALSE,
          branch |-> "index_unreadable"]
    ELSE IF PickleLoadFails(files.chunks)
    THEN [store |-> [index |-> None, chunks |-> <<>>], ret |-> FALSE,
          branch |-> "chunks_unreadable"]
    ELSE [store |-> [index |-> Some(ReadIndex(files.index)),
                     chunks |-> PickleLoad(files.chunks)],
          ret |-> TRUE, branch |-> "loaded"]

\* load_index as it would be if it read the index file only and never loaded
\* the pickled chunk list into self.chunks.
LoadIndexWithoutChunks(s, files) ==
    IF files.index = Absent \/ files.chunks = Absent
    THEN [store |-> s, ret |-> FALSE, branch |-> "missing"]
    ELSE IF ReadIndexFails(files.index)
    THEN [store |-> [s EXCEPT !.index = None], ret |-> FALSE,
          branch |-> "index_unreadable"]
    ELSE IF PickleLoadFails(files.chunks)
    THEN [store |-> [index |-> None, chunks |-> <<>>], ret |-> FALSE,
          branch |-> "chunks_unreadable"]
    ELSE [store |-> [s EXCEPT !.index = Some(ReadIndex(files.index))],
          ret |-> TRUE, branch |-> "loaded"]

\* load_index(index_path, chunks_path), `files` being what the two paths
\* hold. Returns the new store, the value returned and the branch taken.
LoadIndex(s, files) ==
    IF files.index = Absent \/ files.chunks = Absent
    THEN [store |-> s, ret |-> FALSE, branch |-> "missing"]
    ELSE IF ReadIndexFails(files.index)
    THEN [store |-> [s EXCEPT !.index = None], ret |-> FALSE,
          branch |-> "index_unreadable"]
    ELSE LET s1 == [s EXCEPT !.index = Some(ReadIndex(files.index))] IN
         IF PickleLoadFails(files.chunks)
         THEN [store |-> [index |-> None, chunks |-> <<>>], ret |-> FALSE,
               branch |-> "chunks_unreadable"]
         ELSE [store |-> [s1 EXCEPT !.chunks = PickleLoad(files.chunks)],
               ret |-> TRUE, branch |-> "loaded"]

\* The chunk lists build_index can index.
Indexable == {c \in ChunkLists : c # <<>> /\ ~TextExtractionFails(c)}

\* What became of a saved file before it is read: nothing, it was removed,
\* or it was truncated or overwritten with bytes no reader accepts.
Damage == {"intact", "missing", "unreadable"}
Damaged(file, dmg) ==
    CASE dmg = "intact"     -> file
      [] dmg = "missing"    -> Absent
      [] dmg = "unreadable" -> Garbage

(***************************************************************************)
(* One store, any sequence of calls                                        *)
(***************************************************************************)
\* `last` while no call is being reported. `ret` is the list (or optional
\* index) a call returned, `ok` the boolean save_index or load_index returned,
\* `before` the store as build_index or load_index found it.
NoCall ==
    [op |-> "none", chunks |-> <<>>, query |-> "", k |-> 0, enc |-> "ok",
     ret |-> <<>>, ok |-> FALSE, rebuilt |-> FALSE, branch |-> "",
     files |-> [index |-> Absent, chunks |-> Absent],
     saved |-> FALSE, loaded |-> FALSE, ret2 |-> <<>>, rebuilt2 |-> FALSE,
     before |-> InitStore]

Idle == [t \in {} |-> 0]

Init ==
    /\ store = InitStore
    /\ last = NoCall
    /\ task = Idle
    /\ fs = Idle
    /\ proc = Idle

\* vector_store.build_index(chunks)
CallBuildIndex ==
    /\ last.op = "none"
    /\ \E chunks \in ChunkLists, enc \in {"ok", "texts_fail"} :
        LET r == BuildIndex(store, chunks, enc) IN
        /\ store' = r.store
        /\ last' = [NoCall EXCEPT !.op = "build_index", !.chunks = chunks,
                                  !.enc = enc, !.ret = r.ret, !.before = store]
    /\ UNCHANGED <<task, fs, proc>>

\* vector_store.search(query, chunks, k)
CallSearch ==
    /\ last.op = "none"
    /\ \E query \in Query, chunks \in ChunkLists, k \in KRange, enc \in EncOutcome :
        LET r == Search(store, query, chunks, k, enc) IN
        /\ store' = r.store
        /\ last' = [NoCall EXCEPT !.op = "search", !.chunks = chunks, !.query = query,
                                  !.k = k, !.enc = enc, !.ret = r.ret,
                                  !.rebuilt = r.rebuilt]
    /\ UNCHANGED <<task, fs, proc>>

\* vector_store.get_similarity_scores(query, chunks)
CallGetSimilarityScores ==
    /\ last.op = "none"
    /\ \E query \in Query, chunks \in ChunkLists, enc \in EncOutcome :
        LET r == GetSimilarityScores(store, query, chunks, enc) IN
        /\ store' = r.store
        /\ last' = [NoCall EXCEPT !.op = "get_similarity_scores", !.chunks = chunks,
                                  !.query = query, !.enc = enc, !.ret = r.ret,
                                  !.rebuilt = r.rebuilt]
    /\ UNCHANGED <<task, fs, proc>>

\* vector_store.save_index(index_path, chunks_path), to two paths that hold
\* nothing yet.
CallSaveIndex ==
    /\ last.op = "none"
    /\ \E wi \in WriteOutcome, wc \in WriteOutcome :
        LET r == SaveIndex(store, wi, wc) IN
        last' = [NoCall EXCEPT !.op = "save_index", !.ok = r.ret, !.files = r.files]
    /\ UNCHANGED <<store, task, fs, proc>>

\* vector_store.load_index(index_path, chunks_path), the two paths holding
\* what a successful save_index of some indexable chunk list wrote there,
\* each file intact, removed or damaged since.
CallLoadIndex ==
    /\ last.op = "none"
    /\ \E c \in Indexable, di \in Damage, dc \in Damage :
        LET saved == SaveIndex(BuildIndex(InitStore, c, "ok").store, "ok", "ok").files
            files == [index |-> Damaged(saved.index, di),
                      chunks |-> Damaged(saved.chunks, dc)]
            r == LoadIndex(store, files)
        IN  /\ store' = r.store
            /\ last' = [NoCall EXCEPT !.op = "load_index", !.ok = r.ret,
                                      !.branch = r.branch, !.files = files,
                                      !.before = store]
    /\ UNCHANGED <<task, fs, proc>>

\* The persistence round trip of test_persistence: build_index(chunks) and
\* save_index on this store, load_index of the two files into a fresh
\* VectorStore, then the same search on both stores.
CallRoundTrip ==
    /\ last.op = "none"
    /\ \E query \in Query, chunks \in ChunkLists, k \in KRange,
          enc \in {"ok", "texts_fail"} :
        LET b  == BuildIndex(store, chunks, enc)
            sv == SaveIndex(b.store, "ok", "ok")
            ld == LoadIndex(InitStore, sv.files)
            r1 == Search(b.store, query, chunks, k, "ok")
            r2 == Search(ld.store, query, chunks, k, "ok")
        IN  /\ store' = r1.store
            /\ last' = [NoCall EXCEPT !.op = "round_trip", !.chunks = chunks,
                                      !.query = query, !.k = k, !.enc = enc,
                                      !.saved = sv.ret, !.loaded = ld.ret,
                                      !.ret = r1.ret, !.ret2 = r2.ret,
                                      !.rebuilt2 = r2.rebuilt]
    /\ UNCHANGED <<task, fs, proc>>

\* The caller has taken the returned value; the store awaits the next call.
Return ==
    /\ last.op # "none"
    /\ last' = NoCall
    /\ UNCHANGED <<store, task, fs, proc>>

Next ==
    \/ CallBuildIndex
    \/ CallSearch
    \/ CallGetSimilarityScores
    \/ CallSaveIndex
    \/ CallLoadIndex
    \/ CallRoundTrip
    \/ Return

Spec == Init /\ [][Next]_vars

(***************************************************************************)
(* One store shared by concurrent requests                                 *)
(*                                                                         *)
(* streamlit_visual_app.py and app_batch.py build one VectorStore for the  *)
(* whole process (st.cache_resource, module level) and every request calls *)
(* vector_store.search on it. Streamlit runs each session's script in a    *)
(* thread of its own, so two searches interleave between the statements of *)
(* search and build_index; each action below is one such statement.        *)
(***************************************************************************)
Tasks == {1, 2}

\* The documents of the two requests: different documents, no chunk in common.
TaskDocs(t) == IF t = 1 THEN {<<"a", "b">>, <<"b">>} ELSE {<<"c", "d">>, <<"c">>}

IdleTask ==
    [pc |-> "idle", chunks |-> <<>>, query |-> "", k |-> 0,
     embeddings |-> <<>>, labels |-> <<>>, ret |-> <<>>]

InitConc ==
    /\ store = InitStore
    /\ last = NoCall
    /\ task = [t \in Tasks |-> IdleTask]
    /\ fs = Idle
    /\ proc = Idle

\* The request's script calls vector_store.search(query, doc_result['chunks'], k).
TCall(t) ==
    /\ task[t].pc = "idle"
    /\ \E query \in Query, chunks \in TaskDocs(t), k \in KRange :
        task' = [task EXCEPT ![t] = [IdleTask EXCEPT !.pc = "test", !.chunks = chunks,
                                                      !.query = query, !.k = k]]
    /\ UNCHANGED <<store, last, fs, proc>>

\* search: if self.index is None or self.chunks != chunks
TTest(t) ==
    /\ task[t].pc = "test"
    /\ task' = [task EXCEPT ![t].pc =
                    IF NeedsRebuild(store, task[t].chunks) THEN "build" ELSE "have_index"]
    /\ UNCHANGED <<store, last, fs, proc>>

\* build_index: the empty test, then self.chunks = chunks
TBuildAssign(t) ==
    /\ task[t].pc = "build"
    /\ IF task[t].chunks = <<>>
       THEN /\ store' = [index |-> None, chunks |-> <<>>]
            /\ task' = [task EXCEPT ![t].pc = "done", ![t].ret = <<>>]
       ELSE /\ store' = [store EXCEPT !.chunks = task[t].chunks]
            /\ task' = [task EXCEPT ![t].pc = "embed"]
    /\ UNCHANGED <<last, fs, proc>>

\* build_index: texts = [chunk.text ...]; embeddings = self.encoder.encode(texts)
TBuildEmbed(t) ==
    /\ task[t].pc = "embed"
    /\ IF TextExtractionFails(task[t].chunks)
       THEN task' = [task EXCEPT ![t].pc = "done", ![t].ret = <<>>]
       ELSE task' = [task EXCEPT ![t].pc = "new_index",
                                 ![t].embeddings = Encode(task[t].chunks)]
    /\ UNCHANGED <<store, last, fs, proc>>

\* build_index: self.index = faiss.IndexFlatL2(dimension), an empty index
TBuildNewIndex(t) ==
    /\ task[t].pc = "new_index"
    /\ store' = [store EXCEPT !.index = Some(IndexFlatL2(<<>>))]
    /\ task' = [task EXCEPT ![t].pc = "add"]
    /\ UNCHANGED <<last, fs, proc>>

\* build_index: self.index.add(embeddings), on whatever self.index is now
TBuildAdd(t) ==
    /\ task[t].pc = "add"
    /\ IF store.index = None
       THEN /\ task' = [task EXCEPT ![t].pc = "done", ![t].ret = <<>>]
            /\ UNCHANGED store
       ELSE /\ store' = [store EXCEPT !.index =
                            Some(IndexFlatL2(store.index[1].vecs \o task[t].embeddings))]
            /\ task' = [task EXCEPT ![t].pc = "built"]
    /\ UNCHANGED <<last, fs, proc>>

\* build_index: return self.index; search: if self.build_index(chunks) is None
TBuildReturn(t) ==
    /\ task[t].pc = "built"
    /\ IF store.index = None
       THEN task' = [task EXCEPT ![t].pc = "done", ![t].ret = <<>>]
       ELSE task' = [task EXCEPT ![t].pc = "have_index"]
    /\ UNCHANGED <<store, last, fs, proc>>

\* search: if self.index is None: return []; then the query is encoded
THaveIndex(t) ==
    /\ task[t].pc = "have_index"
    /\ IF store.index = None
       THEN task' = [task EXCEPT ![t].pc = "done", ![t].ret = <<>>]
       ELSE task' = [task EXCEPT ![t].pc = "search"]
    /\ UNCHANGED <<store, last, fs, proc>>

\* search: distances, indices = self.index.search(query_embedding, k)
TFaissSearch(t) ==
    /\ task[t].pc = "search"
    /\ IF store.index = None
       THEN task' = [task EXCEPT ![t].pc = "done", ![t].ret = <<>>]
       ELSE task' = [task EXCEPT ![t].pc = "collect",
                        ![t].labels = FaissSearch(store.index[1], Embed(task[t].query),
                                                  task[t].k).I]
    /\ UNCHANGED <<store, last, fs, proc>>

\* search: relevant_chunks = [self.chunks[i] for i in indices[0]]
TCollect(t) ==
    /\ task[t].pc = "collect"
    /\ LET labels == task[t].labels IN
       IF \E r \in 1..Len(labels) : ~PyInRange(store.chunks, labels[r])
       THEN task' = [task EXCEPT ![t].pc = "done", ![t].ret = <<>>]
       ELSE task' = [task EXCEPT ![t].pc = "done",
                        ![t].ret = [r \in 1..Len(labels) |-> PyItem(store.chunks, labels[r])]]
    /\ UNCHANGED <<store, last, fs, proc>>

\* The request has used the returned chunks and ends.
TDone(t) ==
    /\ task[t].pc = "done"
    /\ task' = [task EXCEPT ![t] = IdleTask]
    /\ UNCHANGED <<store, last, fs, proc>>

NextConc ==
    \E t \in Tasks :
        \/ TCall(t)
        \/ TTest(t)
        \/ TBuildAssign(t)
        \/ TBuildEmbed(t)
        \/ TBuildNewIndex(t)
        \/ TBuildAdd(t)
        \/ TBuildReturn(t)
        \/ THaveIndex(t)
        \/ TFaissSearch(t)
        \/ TCollect(t)
        \/ TDone(t)

SpecConc == InitConc /\ [][NextConc]_vars

(***************************************************************************)
(* PDFProcessor: one processor (one cache directory) used by two callers   *)
(*                                                                         *)
(* The front ends build one PDFProcessor for the whole process; every      *)
(* request calls process or process_with_images on it. Each action below   *)
(* is one statement of these methods; the converter, the chunker and the   *)
(* file system may raise.                                                  *)
(***************************************************************************)
Callers == {1, 2}

\* The uploaded documents (their bytes).
Docs == {"doc1", "doc2"}

\* hashlib.md5(content).hexdigest(): the digest of each document, different
\* for the different documents of the model.
Md5(content) == CASE content = "doc1" -> "9f1c" [] content = "doc2" -> "07be"

\* _get_cache_path(content): doc_<md5>.pkl in the cache directory.
CachePath(content) == Md5(content)
CachePaths == {CachePath(d) : d \in Docs}

\* What the converter and the chunker make of the staged bytes of document d.
DocData(d) == [chunks |-> <<d, "chunk">>, text |-> <<d, "markdown">>, num_chunks |-> 1]

\* A staged copy of document d, written by caller t.
Staged(d, t) == [fmt |-> "pdf", content |-> d, by |-> t]
\* A file whose write by caller t raised after the file was created.
Partial(t) == [fmt |-> "partial", by |-> t]
\* A cache entry: the pickle of a result.
CacheEntry(data, t) == [fmt |-> "pickle", data |-> data, by |-> t]

\* prior: the result the cache held for the content when the call began.
IdleProc ==
    [pc |-> "idle", op |-> "", content |-> "", prior |-> None, converted |-> "",
     ret |-> <<>>]

InitPdf ==
    /\ store = InitStore
    /\ last = NoCall
    /\ task = Idle
    /\ fs = [temp |-> Absent, temp_img |-> Absent, cache |-> [h \in CachePaths |-> Absent]]
    /\ proc = [t \in Callers |-> IdleProc]

\* A request calls pdf_processor.process(content) or process_with_images(content).
PCall(t) ==
    /\ proc[t].pc = "idle"
    /\ \E content \in Docs, op \in {"process", "process_with_images"} :
        LET entry == fs.cache[CachePath(content)] IN
        proc' = [proc EXCEPT ![t] = [IdleProc EXCEPT
                    !.pc = IF op = "process" THEN "check_cache" ELSE "img_stage",
                    !.op = op, !.content = content,
                    !.prior = IF op = "process" /\ entry.fmt = "pickle"
                              THEN Some(entry.data) ELSE None]]
    /\ UNCHANGED <<store, last, task, fs>>

\* process: if os.path.exists(cache_path): return pickle.load(f)
PCheckCache(t) ==
    /\ proc[t].pc = "check_cache"
    /\ LET entry == fs.cache[CachePath(proc[t].content)] IN
       proc' = [proc EXCEPT ![t] =
                   IF entry = Absent THEN [@ EXCEPT !.pc = "stage"]
                   ELSE IF entry.fmt = "pickle"
                   THEN [@ EXCEPT !.pc = "returned", !.ret = <<entry.data>>]
                   ELSE [@ EXCEPT !.pc = "raised"]]
    /\ UNCHANGED <<store, last, task, fs>>

\* process: with open(temp_path, "wb") as f: f.write(pdf_content)
PStage(t) ==
    /\ proc[t].pc = "stage"
    /\ \E w \in WriteOutcome :
        /\ fs' = [fs EXCEPT !.temp = CASE w = "ok" -> Staged(proc[t].content, t)
                                       [] w = "raises" -> @
                                       [] w = "raises_partial" -> Partial(t)]
        /\ proc' = [proc EXCEPT ![t].pc = IF w = "ok" THEN "convert" ELSE "raised"]
    /\ UNCHANGED <<store, last, task>>

\* process: result = self.converter.convert(temp_path), on what temp.pdf holds now
PConvert(t) ==
    /\ proc[t].pc = "convert"
    /\ \E converts \in BOOLEAN :
        proc' = [proc EXCEPT ![t] =
                    IF fs.temp.fmt = "pdf" /\ converts
                    THEN [@ EXCEPT !.pc = "chunk", !.converted = fs.temp.content]
                    ELSE [@ EXCEPT !.pc = "raised"]]
    /\ UNCHANGED <<store, last, task, fs>>

\* process: chunks = list(self.chunker.chunk(doc)); text_content = doc.export_to_markdown()
PChunk(t) ==
    /\ proc[t].pc = "chunk"
    /\ \E ok \in BOOLEAN :
        proc' = [proc EXCEPT ![t].pc = IF ok THEN "cache_open" ELSE "raised"]
    /\ UNCHANGED <<store, last, task, fs>>

\* process: open(cache_path, "wb") creates or truncates the entry
PCacheOpen(t) ==
    /\ proc[t].pc = "cache_open"
    /\ \E opens \in BOOLEAN :
        /\ fs' = [fs EXCEPT !.cache[CachePath(proc[t].content)] =
                     IF opens THEN Partial(t) ELSE @]
        /\ proc' = [proc EXCEPT ![t].pc = IF opens THEN "cache_dump" ELSE "raised"]
    /\ UNCHANGED <<store, last, task>>

\* process: pickle.dump(doc_data, f) into the opened entry
PCacheDump(t) ==
    /\ proc[t].pc = "cache_dump"
    /\ \E dumps \in BOOLEAN :
        /\ fs' = [fs EXCEPT !.cache[CachePath(proc[t].content)] =
                     IF dumps THEN CacheEntry(DocData(proc[t].converted), t)
                     ELSE Partial(t)]
        /\ proc' = [proc EXCEPT ![t].pc = IF dumps THEN "cleanup" ELSE "raised"]
    /\ UNCHANGED <<store, last, task>>

\* process: os.remove(temp_path); return doc_data
PCleanup(t) ==
    /\ proc[t].pc = "cleanup"
    /\ IF fs.temp = Absent
       THEN /\ proc' = [proc EXCEPT ![t].pc = "raised"]
            /\ UNCHANGED fs
       ELSE /\ fs' = [fs EXCEPT !.temp = Absent]
            /\ proc' = [proc EXCEPT ![t].pc = "returned",
                                    ![t].ret = <<DocData(proc[t].converted)>>]
    /\ UNCHANGED <<store, last, task>>

\* process_with_images: with open(temp_path, "wb") as f: f.write(pdf_content)
PImgStage(t) ==
    /\ proc[t].pc = "img_stage"
    /\ \E w \in WriteOutcome :
        /\ fs' = [fs EXCEPT !.temp_img = CASE w = "ok" -> Staged(proc[t].content, t)
                                           [] w = "raises" -> @
                                           [] w = "raises_partial" -> Partial(t)]
        /\ proc' = [proc EXCEPT ![t].pc = IF w = "ok" THEN "img_convert" ELSE "raised"]
    /\ UNCHANGED <<store, last, task>>

\* process_with_images: result = converter_with_images.convert(temp_path)
PImgConvert(t) ==
    /\ proc[t].pc = "img_convert"
    /\ \E converts \in BOOLEAN :
        proc' = [proc EXCEPT ![t] =
                    IF fs.temp_img.fmt = "pdf" /\ converts
                    THEN [@ EXCEPT !.pc = "img_cleanup", !.converted = fs.temp_img.content]
                    ELSE [@ EXCEPT !.pc = "raised"]]
    /\ UNCHANGED <<store, last, task, fs>>

\* process_with_images: os.remove(temp_path); return result
PImgCleanup(t) ==
    /\ proc[t].pc = "img_cleanup"
    /\ IF fs.temp_img = Absent
       THEN /\ proc' = [proc EXCEPT ![t].pc = "raised"]
            /\ UNCHANGED fs
       ELSE /\ fs' = [fs EXCEPT !.temp_img = Absent]
            /\ proc' = [proc EXCEPT ![t].pc = "returned",
                                    ![t].ret = <<DocData(proc[t].converted)>>]
    /\ UNCHANGED <<store, last, task>>

\* The call has returned or raised; the caller goes on to its next request.
PExit(t) ==
    /\ proc[t].pc \in {"returned", "raised"}
    /\ proc' = [proc EXCEPT ![t] = IdleProc]
    /\ UNCHANGED <<store, last, task, fs>>

NextPdf ==
    \E t \in Callers :
        \/ PCall(t)
        \/ PCheckCache(t)
        \/ PStage(t)
        \/ PConvert(t)
        \/ PChunk(t)
        \/ PCacheOpen(t)
        \/ PCacheDump(t)
        \/ PCleanup(t)
        \/ PImgStage(t)
        \/ PImgConvert(t)
        \/ PImgCleanup(t)
        \/ PExit(t)

SpecPdf == InitPdf /\ [][NextPdf]_vars

(***************************************************************************)
(* OllamaClient.generate_with_confidence: parsing the model's response     *)
(*                                                                         *)
(* A response is a string, modelled as the sequence of its tokens: the two *)
(* labels, a blank, a word and two numerals. No two tokens put side by     *)
(* side read as a label or as a numeral.                                   *)
(***************************************************************************)
MaxResp == 6      \* longest response, in tokens

AnswerLabel == "ANSWER:"
ConfidenceLabel == "CONFIDENCE:"
Blank == " "
Token == {AnswerLabel, ConfidenceLabel, Blank, "X", "0.9", "1.5"}

\* Confidences in tenths, so that 0.8 is Tenths(8).
Tenths(n) == [tenths |-> n]
DefaultConfidence == Tenths(8)

\* sub in text
Contains(text, sub) == \E i \in 1..Len(text) : text[i] = sub

\* The position of the first sub in text at or after position from, or
\* Len(text) + 1 when there is none.
RECURSIVE Find(_, _, _)
Find(text, sub, from) ==
    IF from > Len(text) \/ text[from] = sub THEN from
    ELSE Find(text, sub, from + 1)

\* text.split(sep): the pieces between the occurrences of sep.
RECURSIVE Split(_, _)
Split(text, sep) ==
    LET at == Find(text, sep, 1) IN
    IF at > Len(text) THEN <<text>>
    ELSE <<SubSeq(text, 1, at - 1)>> \o Split(SubSeq(text, at + 1, Len(text)), sep)

\* text.replace(old, ""): every occurrence of old removed.
ReplaceWithEmpty(text, old) == SelectSeq(text, LAMBDA tok : tok # old)

\* text.strip(): leading and trailing blanks removed.
RECURSIVE LStrip(_)
LStrip(text) == IF text # <<>> /\ text[1] = Blank THEN LStrip(Tail(text)) ELSE text
RECURSIVE RStrip(_)
RStrip(text) ==
    IF text # <<>> /\ text[Len(text)] = Blank
    THEN RStrip(SubSeq(text, 1, Len(text) - 1)) ELSE text
Strip(text) == RStrip(LStrip(text))

\* float(text): raises ValueError unless text is one numeral.
FloatRaises(text) == ~(Len(text) = 1 /\ text[1] \in {"0.9", "1.5"})
Float(text) == IF text[1] = "0.9" THEN Tenths(9) ELSE Tenths(15)

\* The variant of the parser whose except branch yields 0.0.
GenerateWithConfidenceZeroDefault(response, model) ==
    IF Contains(response, ConfidenceLabel)
    THEN LET parts == Split(response, ConfidenceLabel)
             value == Strip(parts[2])
         IN  [answer |-> Strip(ReplaceWithEmpty(parts[1], AnswerLabel)),
              confidence |-> IF FloatRaises(value) THEN Tenths(0) ELSE Float(value),
              model |-> model]
    ELSE [answer |-> response, confidence |-> DefaultConfidence, model |-> model]

\* generate_with_confidence, from the response of llm.invoke on.
GenerateWithConfidence(response, model) ==
    IF Contains(response, ConfidenceLabel)
    THEN LET parts == Split(response, ConfidenceLabel)
             value == Strip(parts[2])
         IN  [answer |-> Strip(ReplaceWithEmpty(parts[1], AnswerLabel)),
              confidence |-> IF FloatRaises(value) THEN DefaultConfidence
                             ELSE Float(value),
              model |-> model]
    ELSE [answer |-> response, confidence |-> DefaultConfidence, model |-> model]

Models == {"deepseek-coder", "mistral"}

\* llm.invoke(prompt) is running; no token has arrived.
InitLlm ==
    /\ store = InitStore
    /\ task = Idle
    /\ fs = Idle
    /\ proc = Idle
    /\ \E model \in Models :
        last = [op |-> "invoke", model |-> model, response |-> <<>>, ret |-> None]

\* The model produces the next token of its response.
LlmEmit ==
    /\ last.op = "invoke"
    /\ Len(last.response) < MaxResp
    /\ \E tok \in Token : last' = [last EXCEPT !.response = Append(@, tok)]
    /\ UNCHANGED <<store, task, fs, proc>>

\* llm.invoke returns the response and generate_with_confidence parses it.
CallGenerateWithConfidence ==
    /\ last.op = "invoke"
    /\ last' = [last EXCEPT !.op = "generate_with_confidence",
                            !.ret = Some(GenerateWithConfidence(last.response, last.model))]
    /\ UNCHANGED <<store, task, fs, proc>>

NextLlm ==
    \/ LlmEmit
    \/ CallGenerateWithConfidence

SpecLlm == InitLlm /\ [][NextLlm]_vars

(***************************************************************************)
(* PICOTTExtractor.extract                                                 *)
(*                                                                         *)
(* A text is the sequence of its words. What re.findall makes of the input *)
(* for one pattern is an input of the model: no match, or the text of the  *)
(* first match (its groups joined and stripped). Confidences are in        *)
(* hundredths.                                                             *)
(***************************************************************************)
Components ==
    <<"population", "intervention", "comparator", "outcome", "time", "type_of_study">>

\* The number of patterns of every component.
PatternCount == 3

NotFound == <<"Not found">>

\* A matched text of 201 units whose only digits are the last unit.
LongText == [i \in 1..201 |-> IF i = 201 THEN "7" ELSE "x"]

\* The texts a first match can yield.
MatchedTexts ==
    {<<"patients", "7">>, <<"therapy">>, <<"rct", "7">>, <<"x">>, NotFound, LongText}

\* re.findall(pattern, text): the list of matches, of which only the first is
\* used: no match, one match, or two.
Findall == {<<>>} \cup {<<t>> : t \in MatchedTexts} \cup {<<<<"therapy">>, <<"x">>>>}

\* What findall can return for a pattern of a component. The patterns of
\* time capture digits and a unit, or years, and nothing else; the long match
\* is drawn for the patterns of outcome, whose last group takes the rest of
\* the sentence.
FindallFor(component) ==
    IF component = "time" THEN {<<>>, << <<"7">> >>}
    ELSE IF component = "outcome" THEN Findall
    ELSE Findall \ {<<LongText>>}

\* any(word in text.lower() for word in words)
AnyWordIn(words, text) == \E i \in 1..Len(text) : text[i] \in words

\* re.search(r'\d+', text)
HasDigits(text) == \E i \in 1..Len(text) : text[i] = "7"

Min(a, b) == IF a <= b THEN a ELSE b

\* The variant that gives larger bonuses and does not cap the sum.
CalculateConfidenceUncapped(text, component) ==
    IF text = NotFound THEN 0
    ELSE 50 + (IF AnyWordIn({"patients", "therapy", "rct"}, text) THEN 40 ELSE 0)
            + (IF HasDigits(text) THEN 10 ELSE 0)

\* _calculate_confidence(text, component)
CalculateConfidence(text, component) ==
    IF text = NotFound THEN 0
    ELSE LET bonus ==
                 IF component = "population"
                    /\ AnyWordIn({"patients", "participants", "subjects"}, text) THEN 20
                 ELSE IF component = "intervention"
                    /\ AnyWordIn({"treatment", "therapy", "intervention"}, text) THEN 20
                 ELSE IF component = "type_of_study"
                    /\ AnyWordIn({"randomized", "rct", "cohort"}, text) THEN 30
                 ELSE 0
             numeric == IF HasDigits(text) THEN 10 ELSE 0
         IN  Min(50 + bonus + numeric, 95)

\* The stored text as it would be without the slice.
NotTruncated(text) == text

\* extracted_text[:200] if len(extracted_text) > 200 else extracted_text
Truncated(text) == IF Len(text) > 200 THEN SubSeq(text, 1, 200) ELSE text

\* The variant that starts every component at the base confidence.
InitialFieldAtBase == [extracted_text |-> NotFound, confidence |-> 50]

\* extracted_text = "Not found"; confidence = 0.0, at the top of the component loop.
InitialField == [extracted_text |-> NotFound, confidence |-> 0]

\* The pattern loop as it would be without the break.
LoopContinuesAfterMatch(matched, pattern) == pattern <= PatternCount

\* for pattern in patterns: ... if matches: ... break
LoopContinues(matched, pattern) == ~matched /\ pattern <= PatternCount

\* extract(text) is entered: results = {} and the first component begins.
\* `consulted` lists what findall returned for the patterns tried so far on
\* the current component; `hits` and `full` record, per stored field,
\* whether a pattern matched and the text it matched.
InitPico ==
    /\ store = InitStore
    /\ task = Idle
    /\ fs = Idle
    /\ proc = Idle
    /\ last = [op |-> "extract", component |-> 1, pattern |-> 1, matched |-> FALSE,
               field |-> InitialField, results |-> <<>>, hits |-> <<>>,
               consulted |-> <<>>, full |-> <<>>]

\* One pass of the pattern loop: findall, and on a match the text, the
\* confidence and the break.
PicoTryPattern ==
    /\ last.op = "extract"
    /\ last.component <= Len(Components)
    /\ LoopContinues(last.matched, last.pattern)
    /\ \E matches \in FindallFor(Components[last.component]) :
        last' = IF matches # <<>>
                THEN [last EXCEPT !.matched = TRUE, !.pattern = @ + 1,
                         !.consulted = Append(@, matches),
                         !.field = [extracted_text |-> matches[1],
                                    confidence |-> CalculateConfidence(matches[1],
                                                       Components[last.component])]]
                ELSE [last EXCEPT !.pattern = @ + 1,
                                  !.consulted = Append(@, matches)]
    /\ UNCHANGED <<store, task, fs, proc>>

\* results[component] = {...}, and the next component begins.
PicoStoreField ==
    /\ last.op = "extract"
    /\ last.component <= Len(Components)
    /\ ~LoopContinues(last.matched, last.pattern)
    /\ last' = [last EXCEPT
                   !.results = Append(@, [name |-> Components[last.component],
                                          text |-> Truncated(last.field.extracted_text),
                                          confidence |-> last.field.confidence]),
                   !.hits = Append(@, last.matched),
                   !.full = Append(@, IF last.matched
                                      THEN Some(last.field.extracted_text) ELSE None),
                   !.component = @ + 1, !.pattern = 1, !.matched = FALSE,
                   !.consulted = <<>>,
                   !.field = InitialField]
    /\ UNCHANGED <<store, task, fs, proc>>

\* return results
PicoReturn ==
    /\ last.op = "extract"
    /\ last.component > Len(Components)
    /\ last' = [last EXCEPT !.op = "extract_returned"]
    /\ UNCHANGED <<store, task, fs, proc>>

NextPico ==
    \/ PicoTryPattern
    \/ PicoStoreField
    \/ PicoReturn

SpecPico == InitPico /\ [][NextPico]_vars

(***************************************************************************)
(* Start-up of the front ends and VectorStore.__init__                     *)
(*                                                                         *)
(* app.py and app_batch.py build their VectorStore when the module is      *)
(* imported; streamlit_demo.py and streamlit_lite.py build one inside the  *)
(* handler of the Process button. Whether the embedding model loads is     *)
(* decided by the environment at each construction.                        *)
(***************************************************************************)
MaxRequests == 5      \* requests one run of a front end receives

EagerApps == {"app.py", "app_batch.py"}
LazyApps == {"streamlit_demo.py", "streamlit_lite.py"}

\* VectorStore(model_name): the object built, or the exception raised.
NewVectorStore(loads) ==
    IF loads
    THEN [raised |-> "", object |-> Some([encoder |-> "SentenceTransformer",
                                          index |-> None, chunks |-> <<>>])]
    ELSE [raised |-> "VectorStoreInitializationError", object |-> None]

\* The interpreter starts one of the front ends.
InitApp ==
    /\ store = InitStore
    /\ task = Idle
    /\ fs = Idle
    /\ proc = Idle
    /\ \E app \in EagerApps \cup LazyApps :
        last = [op |-> "app", app |-> app, phase |-> "importing",
                vector_store |-> None, raised |-> "", log |-> <<>>]

\* app.py, app_batch.py: the module-level initialisation of the components.
AppImportEager ==
    /\ last.op = "app" /\ last.phase = "importing"
    /\ last.app \in EagerApps
    /\ \E loads \in BOOLEAN :
        LET vs == NewVectorStore(loads) IN
        last' = IF vs.raised # ""
                THEN [last EXCEPT !.phase = "aborted",
                         !.raised = IF last.app = "app.py" THEN "RuntimeError"
                                    ELSE vs.raised]
                ELSE [last EXCEPT !.phase = "serving", !.vector_store = vs.object]
    /\ UNCHANGED <<store, task, fs, proc>>

\* streamlit_demo.py, streamlit_lite.py: the script builds no component
\* until the Process button is pressed.
AppImportLazy ==
    /\ last.op = "app" /\ last.phase = "importing"
    /\ last.app \in LazyApps
    /\ last' = [last EXCEPT !.phase = "serving"]
    /\ UNCHANGED <<store, task, fs, proc>>

\* A request to app.py or app_batch.py uses the module-level vector_store.
AppRequestEager ==
    /\ last.op = "app" /\ last.phase = "serving"
    /\ last.app \in EagerApps
    /\ Len(last.log) < MaxRequests
    /\ last' = [last EXCEPT !.log = Append(@, "answered")]
    /\ UNCHANGED <<store, task, fs, proc>>

\* The Process button of streamlit_demo.py or streamlit_lite.py: the handler
\* builds VectorStore() inside its try block, and except Exception reports
\* whatever was raised with st.error.
AppRequestLazy ==
    /\ last.op = "app" /\ last.phase = "serving"
    /\ last.app \in LazyApps
    /\ Len(last.log) < MaxRequests
    /\ \E loads \in BOOLEAN :
        LET vs == NewVectorStore(loads) IN
        last' = IF vs.raised # ""
                THEN [last EXCEPT !.log = Append(@, "initialization_failed"),
                                  !.vector_store = None]
                ELSE [last EXCEPT !.log = Append(@, "answered"),
                                  !.vector_store = vs.object]
    /\ UNCHANGED <<store, task, fs, proc>>

NextApp ==
    \/ AppImportEager
    \/ AppImportLazy
    \/ AppRequestEager
    \/ AppRequestLazy

SpecApp == InitApp /\ [][NextApp]_vars

(***************************************************************************)
(* The similarity transform in floating point                              *)
(*                                                                         *)
(* index.search returns float32 distances and 1 / (1 + distances[0]) is    *)
(* computed by numpy in float32: each of the two operations is rounded to  *)
(* the nearest float, ties to the even mantissa. The floats here are a     *)
(* binary format of the same construction with a short mantissa: normal    *)
(* and subnormal numbers, a largest exponent well above the precision.     *)
(* A float is kept as the integer number of smallest subnormals it holds.  *)
(***************************************************************************)
Precision == 3      \* bits of the mantissa, the leading one included

MaxExp == Precision + 2
MinExp == 1 - MaxExp

RECURSIVE Pow2(_)
Pow2(n) == IF n = 0 THEN 1 ELSE 2 * Pow2(n - 1)

\* The float 1.0
One == Pow2((Precision - 1) - MinExp)

\* The finite floats >= 0: zero, the subnormals, the normals.
Floats ==
    (0..(Pow2(Precision - 1) - 1))
    \cup {m * Pow2(j) : m \in Pow2(Precision - 1)..(Pow2(Precision) - 1),
                        j \in 0..(MaxExp - MinExp)}

\* The mantissa of a float.
RECURSIVE Mantissa(_)
Mantissa(f) == IF f < Pow2(Precision) THEN f ELSE Mantissa(f \div 2)

MaxFloat == (Pow2(Precision) - 1) * Pow2(MaxExp - MinExp)

\* The distance between a float and the next larger one.
Ulp(f) == IF f < Pow2(Precision) THEN 1 ELSE f \div Mantissa(f)

\* The largest float that does not exceed the integer q.
RECURSIVE FloorToFloat(_)
FloorToFloat(q) == IF q < Pow2(Precision) THEN q ELSE 2 * FloorToFloat(q \div 2)

\* num / den rounded to the nearest float, ties to the even mantissa. (The
\* values rounded here stay below the overflow threshold: at MaxFloat the
\* result is MaxFloat.)
RoundToFloat(num, den) ==
    LET lo == FloorToFloat(num \div den)
        hi == lo + Ulp(lo)
        below == num - lo * den
        above == hi * den - num
    IN  IF lo >= MaxFloat THEN MaxFloat
        ELSE IF below < above THEN lo
        ELSE IF above < below THEN hi
        ELSE IF Mantissa(lo) % 2 = 0 THEN lo ELSE hi

\* 1 + d and 1 / x in float arithmetic.
FloatOnePlus(d) == RoundToFloat(One + d, 1)
FloatReciprocal(x) == RoundToFloat(One * One, x)

\* The transform without the reciprocal.
FloatSimilarityNoReciprocal(d) == FloatOnePlus(d)

\* similarities = 1 / (1 + distances[0]), for one element.
FloatSimilarity(d) == FloatReciprocal(FloatOnePlus(d))

\* index.search has returned the distances of two chunks.
InitSim ==
    /\ store = InitStore
    /\ task = Idle
    /\ fs = Idle
    /\ proc = Idle
    /\ \E d1 \in Floats, d2 \in Floats :
        last = [op |-> "distances", d |-> <<d1, d2>>, similarities |-> <<>>]

\* The distances are converted to similarity scores.
ConvertToSimilarities ==
    /\ last.op = "distances"
    /\ last' = [last EXCEPT !.op = "similarities",
                   !.similarities = [i \in 1..2 |-> FloatSimilarity(last.d[i])]]
    /\ UNCHANGED <<store, task, fs, proc>>

NextSim == ConvertToSimilarities

SpecSim == InitSim /\ [][NextSim]_vars

(***************************************************************************)
(* BiasAssessmentExtractor.extract                                         *)
(*                                                                         *)
(* A text is the sequence of its units: a keyword, an indicator word or a  *)
(* filler each count as one unit of length.                                *)
(***************************************************************************)
Domains ==
    <<"random_sequence_generation", "allocation_concealment", "blinding_participants",
      "blinding_assessment", "incomplete_outcome", "selective_reporting", "other_bias">>

\* keywords[domain], in list order.
Keywords(domain) ==
    CASE domain = "random_sequence_generation" ->
             <<"randomization", "random sequence", "randomized">>
      [] domain = "allocation_concealment" ->
             <<"allocation", "concealment", "sealed envelopes">>
      [] domain = "blinding_participants" ->
             <<"blinding", "blind", "masked", "double-blind">>
      [] domain = "blinding_assessment" ->
             <<"outcome assessment", "assessor blinding", "evaluator blind">>
      [] domain = "incomplete_outcome" ->
             <<"lost to follow-up", "attrition", "dropout", "missing data">>
      [] domain = "selective_reporting" ->
             <<"protocol", "pre-registered", "all outcomes reported">>
      [] domain = "other_bias" ->
             <<"baseline", "imbalance", "conflict of interest", "funding">>

\* The default of _extract_context's window parameter.
Window == 100

PositiveIndicators == {"properly", "adequate", "appropriate", "successful"}
NegativeIndicators == {"not", "inadequate", "failed", "unclear"}

\* str.lower(), unit by unit.
LowerUnit(u) ==
    CASE u = "Blinding" -> "blinding"
      [] u = "NOT" -> "not"
      [] OTHER -> u
Lower(text) == [i \in 1..Len(text) |-> LowerUnit(text[i])]

\* indicator in unit: the word occurs in the unit as a substring.
InUnit(indicator, u) ==
    \/ u = indicator
    \/ u = "inadequate" /\ indicator = "adequate"

\* text.find(sub): the index (from 0) of the first occurrence, or -1.
StrFind(text, sub) ==
    IF \E i \in 1..Len(text) : text[i] = sub
    THEN (CHOOSE i \in 1..Len(text) :
              text[i] = sub /\ \A j \in 1..(i - 1) : text[j] # sub) - 1
    ELSE -1

Max(a, b) == IF a >= b THEN a ELSE b

\* text[start:end]
Slice(text, start, end) == SubSeq(text, start + 1, end)

\* _extract_context(text, keyword); a keyword is one unit long.
ExtractContext(text, keyword) ==
    LET keyword_pos == StrFind(Lower(text), LowerUnit(keyword)) IN
    IF keyword_pos = -1 THEN <<>>
    ELSE Slice(text, Max(0, keyword_pos - Window),
               Min(Len(text), keyword_pos + 1 + Window))

\* _assess_risk as it would be with the negative indicators tested first.
AssessRiskNegativeFirst(context, domain) ==
    IF \E i \in 1..Len(context) :
           \E ind \in NegativeIndicators : InUnit(ind, LowerUnit(context[i]))
    THEN [risk_level |-> "High risk", justification |-> <<"Inadequate", domain>>]
    ELSE IF \E i \in 1..Len(context) :
                \E ind \in PositiveIndicators : InUnit(ind, LowerUnit(context[i]))
    THEN [risk_level |-> "Low risk", justification |-> <<"Adequate", domain, "described">>]
    ELSE [risk_level |-> "Unclear risk",
          justification |-> <<"Insufficient information to assess">>]

\* _assess_risk(context, domain)
AssessRisk(context, domain) ==
    LET context_lower == Lower(context) IN
    IF \E i \in 1..Len(context_lower) :
           \E ind \in PositiveIndicators : InUnit(ind, context_lower[i])
    THEN [risk_level |-> "Low risk", justification |-> <<"Adequate", domain, "described">>]
    ELSE IF \E i \in 1..Len(context_lower) :
                \E ind \in NegativeIndicators : InUnit(ind, context_lower[i])
    THEN [risk_level |-> "High risk", justification |-> <<"Inadequate", domain>>]
    ELSE [risk_level |-> "Unclear risk",
          justification |-> <<"Insufficient information to assess">>]

\* The keyword loop of one domain, from the k-th keyword on: the first
\* keyword of the list that occurs in the text decides, and the loop breaks.
RECURSIVE AssessDomain(_, _, _)
AssessDomain(text, domain, k) ==
    IF k > Len(Keywords(domain))
    THEN [risk_level |-> "Unclear risk",
          justification |-> <<"No clear information found">>, confidence |-> 30]
    ELSE LET keyword == Keywords(domain)[k] IN
         IF StrFind(Lower(text), LowerUnit(keyword)) # -1
         THEN LET r == AssessRisk(ExtractContext(text, keyword), domain) IN
              [risk_level |-> r.risk_level, justification |-> r.justification,
               confidence |-> 70]
         ELSE AssessDomain(text, domain, k + 1)

Filler(n) == [i \in 1..n |-> "x"]

\* The input texts: a keyword part and an indicator part, in either order,
\* with fillers between them that put the indicator just inside or just
\* outside the window; a text with two keywords of one domain, the later
\* keyword of the list first; texts without keyword.
BiasTexts ==
    LET kws == {<<"randomized">>, <<"Blinding">>, <<"allocation", "funding">>}
        inds == {<<>>, <<"properly">>, <<"NOT">>, <<"not", "adequate">>, <<"inadequate">>}
        gaps == {0, Window - 1, Window}
    IN  {kw \o Filler(g) \o ind : kw \in kws, g \in gaps, ind \in inds}
        \cup {ind \o Filler(g) \o kw : kw \in kws, g \in gaps, ind \in inds}
        \cup {<<"randomized", "properly">> \o Filler(Window) \o <<"randomization", "not">>,
              <<>>, Filler(3), <<"properly">>}

\* extract(text) is entered: results = {}.
InitBias ==
    /\ store = InitStore
    /\ task = Idle
    /\ fs = Idle
    /\ proc = Idle
    /\ \E text \in BiasTexts :
        last = [op |-> "bias_extract", text |-> text, domain |-> 1, results |-> <<>>]

\* One pass of the domain loop.
BiasAssessDomain ==
    /\ last.op = "bias_extract"
    /\ last.domain <= Len(Domains)
    /\ LET r == AssessDomain(last.text, Domains[last.domain], 1) IN
       last' = [last EXCEPT
                   !.results = Append(@, [name |-> Domains[last.domain],
                                          risk_level |-> r.risk_level,
                                          justification |-> r.justification,
                                          confidence |-> r.confidence]),
                   !.domain = @ + 1]
    /\ UNCHANGED <<store, task, fs, proc>>

\* return results
BiasReturn ==
    /\ last.op = "bias_extract"
    /\ last.domain > Len(Domains)
    /\ last' = [last EXCEPT !.op = "bias_returned"]
    /\ UNCHANGED <<store, task, fs, proc>>

NextBias ==
    \/ BiasAssessDomain
    \/ BiasReturn

SpecBias == InitBias /\ [][NextBias]_vars

(***************************************************************************)
(* One store and the caller's list object                                  *)
(*                                                                         *)
(* build_index binds self.chunks to the list it was handed (line 108), so  *)
(* the store and the caller hold the same list object until the store      *)
(* binds another: what the caller changes in place is changed in           *)
(* self.chunks as well. `task` is the caller here: docs is its list        *)
(* object, shared says whether self.chunks is that same object.            *)
(***************************************************************************)
\* The in-place changes of a list: append, del list[i], list[i] = c.
InPlaceChanges(docs) ==
    {Append(docs, c) : c \in {x \in Chunk : Len(docs) < MaxLen}}
    \cup {SubSeq(docs, 1, i - 1) \o SubSeq(docs, i + 1, Len(docs)) : i \in 1..Len(docs)}
    \cup {[docs EXCEPT ![i] = c] : i \in 1..Len(docs), c \in Chunk}

\* Whether self.chunks is the caller's list object after build_index(docs)
\* ran: the empty branch binds a new empty list, line 108 binds docs.
SharedAfterBuild(docs) == docs # <<>>

InitAlias ==
    /\ store = InitStore
    /\ last = NoCall
    /\ fs = Idle
    /\ proc = Idle
    /\ \E docs \in ChunkLists : task = [docs |-> docs, shared |-> FALSE]

\* The caller changes its list in place between two calls.
AliasChangeInPlace ==
    /\ last.op = "none"
    /\ \E docs \in InPlaceChanges(task.docs) \ {task.docs} :
        /\ task' = [task EXCEPT !.docs = docs]
        /\ store' = IF task.shared THEN [store EXCEPT !.chunks = docs] ELSE store
    /\ UNCHANGED <<last, fs, proc>>

\* vector_store.build_index(docs)
AliasBuildIndex ==
    /\ last.op = "none"
    /\ \E enc \in {"ok", "texts_fail"} :
        LET r == BuildIndex(store, task.docs, enc) IN
        /\ store' = r.store
        /\ task' = [task EXCEPT !.shared = SharedAfterBuild(task.docs)]
        /\ last' = [NoCall EXCEPT !.op = "build_index", !.chunks = task.docs,
                                  !.enc = enc, !.ret = r.ret, !.before = store]
    /\ UNCHANGED <<fs, proc>>

\* vector_store.search(query, docs, k)
AliasSearch ==
    /\ last.op = "none"
    /\ \E query \in Query, k \in KRange, enc \in EncOutcome :
        LET r == Search(store, query, task.docs, k, enc) IN
        /\ store' = r.store
        /\ task' = [task EXCEPT !.shared =
                       IF r.rebuilt THEN SharedAfterBuild(task.docs) ELSE @]
        /\ last' = [NoCall EXCEPT !.op = "search", !.chunks = task.docs,
                                  !.query = query, !.k = k, !.enc = enc,
                                  !.ret = r.ret, !.rebuilt = r.rebuilt,
                                  !.before = store]
    /\ UNCHANGED <<fs, proc>>

\* vector_store.get_similarity_scores(query, docs)
AliasGetSimilarityScores ==
    /\ last.op = "none"
    /\ \E query \in Query, enc \in EncOutcome :
        LET r == GetSimilarityScores(store, query, task.docs, enc) IN
        /\ store' = r.store
        /\ task' = [task EXCEPT !.shared =
                       IF r.rebuilt THEN SharedAfterBuild(task.docs) ELSE @]
        /\ last' = [NoCall EXCEPT !.op = "get_similarity_scores",
                                  !.chunks = task.docs, !.query = query, !.enc = enc,
                                  !.ret = r.ret, !.rebuilt = r.rebuilt,
                                  !.before = store]
    /\ UNCHANGED <<fs, proc>>

\* The caller has taken the returned value.
AliasReturn ==
    /\ last.op # "none"
    /\ last' = NoCall
    /\ UNCHANGED <<store, task, fs, proc>>

NextAlias ==
    \/ AliasChangeInPlace
    \/ AliasBuildIndex
    \/ AliasSearch
    \/ AliasGetSimilarityScores
    \/ AliasReturn

SpecAlias == InitAlias /\ [][NextAlias]_vars

(***************************************************************************)
(* Properties of one store                                                 *)
(***************************************************************************)
\* The store's index was built from exactly the chunk list it records.
Consistent(s) ==
    /\ s.index # None
    /\ s.chunks \in Indexable
    /\ s.index = Some(IndexFlatL2(Encode(s.chunks)))

\* How many times chunk c occurs in a list.
Occurrences(list, c) == Cardinality({i \in 1..Len(list) : list[i] = c})

\* C1: after any sequence of build_index, search, get_similarity_scores and
\* load_index calls, failing ones included, a store that holds an index holds
\* as many vectors in it as it records chunks.
C1_VectorCountEqualsChunkCount ==
    store.index # None => store.index[1].ntotal = Len(store.chunks)

\* C2: search and get_similarity_scores rebuild when the recorded list
\* differs from the argument, so whenever one of them returns results, every
\* returned chunk is an element of the argument, the store records the
\* argument, and the index that was searched was built from the argument.
C2_ResultsComeFromIndexOfArgument ==
    (last.op \in {"search", "get_similarity_scores"} /\ last.ret # <<>>) =>
        /\ last.op = "search" =>
              \A i \in 1..Len(last.ret) :
                  \E j \in 1..Len(last.chunks) : last.ret[i] = last.chunks[j]
        /\ store.chunks = last.chunks
        /\ Consistent(store)

\* C3: every search whose chunk list cannot be indexed (a chunk without
\* .text, or the embedding of the texts raising) returns the empty list,
\* whatever the store held before and however often the call is repeated.
C3_UnindexableSearchReturnsEmpty ==
    (/\ last.op = "search"
     /\ \/ TextExtractionFails(last.chunks)
        \/ last.rebuilt /\ last.enc = "texts_fail")
    => last.ret = <<>>

\* C4: a search with k greater than the number n of indexed chunks returns
\* exactly n results, each indexed chunk exactly once.
C4_KBeyondCountReturnsEachChunkOnce ==
    (/\ last.op = "search"
     /\ last.enc = "ok"
     /\ Consistent(store)
     /\ last.k > store.index[1].ntotal)
    => /\ Len(last.ret) = store.index[1].ntotal
       /\ \A c \in Chunk : Occurrences(last.ret, c) = Occurrences(store.chunks, c)

\* C5: get_similarity_scores returns one score per indexed chunk in index
\* order: the i-th score is 1/(1+distance) of the i-th chunk of the list.
C5_ScoresInIndexOrder ==
    (/\ last.op = "get_similarity_scores"
     /\ last.enc = "ok"
     /\ Consistent(store))
    => /\ Len(last.ret) = Len(store.chunks)
       /\ \A i \in 1..Len(last.ret) :
              last.ret[i] = Similarity(L2Sqr(store.index[1], Embed(last.query), i - 1))

\* C6: save_index returns True only if both files were written, and when it
\* returns False it has not left one of the two files without its pair.
C6_SaveLeavesNoPartialPair ==
    last.op = "save_index" =>
        /\ last.ok => last.files.index.fmt = "faiss" /\ last.files.chunks.fmt = "pickle"
        /\ ~last.ok => (last.files.index = Absent <=> last.files.chunks = Absent)

\* C7: a load_index that finds both files but cannot deserialize one of them
\* returns False and leaves the store with no index and no chunks.
C7_FailedLoadResetsBoth ==
    (last.op = "load_index" /\ last.branch \in {"index_unreadable", "chunks_unreadable"})
    => /\ ~last.ok
       /\ store.index = None
       /\ store.chunks = <<>>

C9_SearchReturnsOwnChunks ==
    \A t \in DOMAIN task :
        task[t].pc = "done" =>
            \A i \in 1..Len(task[t].ret) :
                \E j \in 1..Len(task[t].chunks) : task[t].ret[i] = task[t].chunks[j]

\* C10: every temporary file that process or process_with_images wrote to
\* stage the document has been deleted when the call exits, whether it
\* returns or raises (stated for the files whose write completed).
C10_TempFileDeletedOnExit ==
    \A t \in DOMAIN proc :
        proc[t].pc \in {"returned", "raised"} =>
            /\ ~(fs.temp.fmt = "pdf" /\ fs.temp.by = t)
            /\ ~(fs.temp_img.fmt = "pdf" /\ fs.temp_img.by = t)

\* C11: once process has stored a result for some document bytes, every
\* later process call with the same bytes returns a value equal to the
\* stored result, without invoking the converter or the chunker and without
\* writing the temp file or the cache entry.
C11_CachedResultReturned ==
    \A t \in DOMAIN proc :
        (proc[t].op = "process" /\ proc[t].prior # None) =>
            /\ proc[t].pc \in {"check_cache", "returned"}
            /\ proc[t].converted = ""
            /\ proc[t].pc = "returned" => proc[t].ret = proc[t].prior

\* What follows the delimiter in a response that holds it: the text between
\* the first CONFIDENCE: and the next one, or the end of the response.
AfterDelimiter(response) ==
    LET at == Find(response, ConfidenceLabel, 1)
    IN  SubSeq(response, at + 1, Find(response, ConfidenceLabel, at + 1) - 1)

\* What precedes the first CONFIDENCE: in a response that holds it.
BeforeDelimiter(response) == SubSeq(response, 1, Find(response, ConfidenceLabel, 1) - 1)

\* C12: for every response text, the confidence of the returned record lies
\* in [0, 1].
C12_ConfidenceInUnitInterval ==
    last.op = "generate_with_confidence" =>
        /\ last.ret[1].confidence.tenths >= 0
        /\ last.ret[1].confidence.tenths <= 10

C14_OnlyLeadingLabelRemoved ==
    (last.op = "generate_with_confidence" /\ Contains(last.response, ConfidenceLabel)) =>
        LET before == Strip(BeforeDelimiter(last.response))
            after == Strip(AfterDelimiter(last.response))
        IN  /\ last.ret[1].answer =
                  IF before # <<>> /\ before[1] = AnswerLabel
                  THEN Strip(Tail(before)) ELSE before
            /\ ~FloatRaises(after) => last.ret[1].confidence = Float(after)

\* C15: for every input text and every one of the six fields, the confidence
\* returned by extract lies in [0.0, 0.95].
C15_FieldConfidenceBounded ==
    last.op \in {"extract", "extract_returned"} =>
        \A i \in 1..Len(last.results) :
            /\ last.results[i].confidence >= 0
            /\ last.results[i].confidence <= 95

\* C15 witness: extract has returned a field at the highest confidence the
\* bonuses reach and a field that was not found.
C15_Witness ==
    /\ last.op = "extract_returned"
    /\ last.results[6].confidence = 90
    /\ last.results[1].confidence = 80
    /\ last.results[3].confidence = 0

\* C16: extract returns exactly the six fields, and every field none of
\* whose patterns matched has the text 'Not found' and the confidence 0.0.
C16_SixFieldsNotFoundDefault ==
    last.op = "extract_returned" =>
        /\ [i \in 1..Len(last.results) |-> last.results[i].name] = Components
        /\ \A i \in 1..Len(last.results) :
               ~last.hits[i] => /\ last.results[i].text = <<"Not found">>
                                /\ last.results[i].confidence = 0

\* C16 witness: extract has returned with a field that matched and a field
\* that did not.
C16_Witness ==
    /\ last.op = "extract_returned"
    /\ ~last.hits[2]
    /\ last.hits[5] /\ last.results[5].text = <<"7">>

\* C17: build_index on an empty chunk list returns None and leaves the store
\* with no index and no chunks, whatever it held before; a search on the
\* empty list returns [].
C17_EmptyBuildClearsStore ==
    /\ (last.op = "build_index" /\ last.chunks = <<>>) =>
           /\ last.ret = None
           /\ store.index = None
           /\ store.chunks = <<>>
    /\ (last.op = "search" /\ last.chunks = <<>>) =>
           /\ last.ret = <<>>
           /\ store.index = None
           /\ store.chunks = <<>>

\* C17 witness: build_index([]) on a store that held a two-vector index.
C17_Witness ==
    /\ last.op = "build_index"
    /\ last.chunks = <<>>
    /\ last.before.index # None
    /\ Len(last.before.chunks) = 2
    /\ store.index = None

\* C18: for 1 <= k <= n, n the number of indexed chunks, search returns
\* exactly the k chunks of the list nearest to the query embedding, by
\* ascending distance.
C18_KNearestAscending ==
    (/\ last.op = "search"
     /\ last.enc = "ok"
     /\ last.chunks \in Indexable
     /\ last.k <= Len(last.chunks))
    => LET nearest == FaissSearch(IndexFlatL2(Encode(last.chunks)),
                                  Embed(last.query), last.k).I
       IN  last.ret = [r \in 1..last.k |-> last.chunks[nearest[r] + 1]]

\* C19: load_index returns False when the index file or the chunks file does
\* not exist, and then leaves the store's index and chunk list as they were.
C19_MissingFileLeavesStore ==
    (/\ last.op = "load_index"
     /\ last.files.index = Absent \/ last.files.chunks = Absent)
    => /\ ~last.ok
       /\ store = last.before

\* C19 witness: load_index with the chunks file missing, on a store that
\* holds an index.
C19_Witness ==
    /\ last.op = "load_index"
    /\ last.files.index # Absent
    /\ last.files.chunks = Absent
    /\ last.before.index # None
    /\ store.index # None

\* C20: a VectorStore whose embedding model cannot be loaded is never
\* produced (the constructor raises), and the failure is fatal before any
\* request: the application aborts start-up, so no request is received and
\* fails on the initialization.
C20_InitFailureAbortsStartup ==
    last.op = "app" =>
        /\ last.vector_store # None => last.vector_store[1].encoder = "SentenceTransformer"
        /\ last.phase = "aborted" => last.log = <<>> /\ last.raised # ""
        /\ \A i \in 1..Len(last.log) : last.log[i] # "initialization_failed"

\* C21: the score 1/(1+d) of a distance d >= 0 lies in (0, 1], equals 1 only
\* for d = 0, and is strictly decreasing in d: d1 < d2 gives
\* score(d1) > score(d2).
C21_SimilarityStrictlyDecreasing ==
    last.op = "similarities" =>
        /\ \A i \in 1..2 :
               /\ last.similarities[i] > 0
               /\ last.similarities[i] <= One
               /\ last.similarities[i] = One => last.d[i] = 0
        /\ last.d[1] < last.d[2] => last.similarities[1] > last.similarities[2]

\* C21 as amended: the score lies in (0, 1], is 1 for d = 0, and never
\* increases with d: d1 < d2 gives score(d1) >= score(d2).
C21_SimilarityNonIncreasing ==
    last.op = "similarities" =>
        /\ \A i \in 1..2 :
               /\ last.similarities[i] > 0
               /\ last.similarities[i] <= One
               /\ last.d[i] = 0 => last.similarities[i] = One
        /\ last.d[1] < last.d[2] => last.similarities[1] >= last.similarities[2]

\* C21 witness: two different distances, one below and one above 1.0, have
\* been converted to different scores.
C21_Witness ==
    /\ last.op = "similarities"
    /\ 0 < last.d[1] /\ last.d[1] < One /\ One < last.d[2]
    /\ last.similarities[1] > last.similarities[2]

\* C22: a build_index that fails (a chunk without text, or the embedding
\* provider raising) returns None and leaves the store's chunk list and
\* index either both as before the call or both empty.
C22_FailedBuildLeavesNoPartialState ==
    (/\ last.op = "build_index"
     /\ last.chunks # <<>>
     /\ TextExtractionFails(last.chunks) \/ last.enc = "texts_fail")
    => /\ last.ret = None
       /\ \/ store = last.before
          \/ store = [index |-> None, chunks |-> <<>>]

\* C23: whenever save_index returns True, the two files it wrote are a
\* matched pair: the saved index holds one vector per saved chunk and was
\* built from exactly the saved chunk list.
C23_SavedPairMatches ==
    (last.op = "save_index" /\ last.ok) =>
        /\ last.files.index.fmt = "faiss"
        /\ last.files.chunks.fmt = "pickle"
        /\ last.files.index.ntotal = last.files.chunks.n
        /\ PickleLoad(last.files.chunks) \in Indexable
        /\ last.files.index = WriteIndex(IndexFlatL2(Encode(PickleLoad(last.files.chunks))))

\* C24: the patterns of a field are tried in their listed order, the first
\* pattern that matches determines the field's text, from its first match,
\* and no pattern after it is consulted.
C24_FirstMatchingPatternWins ==
    /\ last.op = "extract" =>
           LET tried == last.consulted IN
           /\ Len(tried) = last.pattern - 1
           /\ \A j \in 1..(Len(tried) - 1) : tried[j] = <<>>
           /\ last.matched <=> (tried # <<>> /\ tried[Len(tried)] # <<>>)
           /\ last.matched => last.field.extracted_text = tried[Len(tried)][1]
    /\ last.op \in {"extract", "extract_returned"} =>
           \A i \in 1..Len(last.results) :
               last.hits[i] =>
                   \A j \in 1..Len(last.results[i].text) :
                       last.results[i].text[j] = last.full[i][1][j]

\* C24 witness: the second pattern of the second component matched twice,
\* after the first pattern did not match.
C24_Witness ==
    /\ last.op = "extract"
    /\ last.component = 2
    /\ last.consulted = << <<>>, << <<"therapy">>, <<"x">> >> >>
    /\ last.field.extracted_text = <<"therapy">>

\* C25: for every field whose pattern matched, the confidence is 0.5, plus
\* 0.2 for a domain keyword of the field, plus 0.3 for a trial-design keyword
\* in type_of_study, plus 0.1 for a digit, capped at 0.95, and so never
\* below 0.5.
C25_MatchedFieldConfidence ==
    last.op \in {"extract", "extract_returned"} =>
        \A i \in 1..Len(last.results) :
            last.hits[i] =>
                LET text == last.full[i][1]
                    has(words) == \E j \in 1..Len(text) : text[j] \in words
                    keyword ==
                        CASE Components[i] = "population" ->
                                 IF has({"patients", "participants", "subjects"})
                                 THEN 20 ELSE 0
                          [] Components[i] = "intervention" ->
                                 IF has({"treatment", "therapy", "intervention"})
                                 THEN 20 ELSE 0
                          [] Components[i] = "type_of_study" ->
                                 IF has({"randomized", "rct", "cohort"}) THEN 30 ELSE 0
                          [] OTHER -> 0
                    digit == IF has({"7"}) THEN 10 ELSE 0
                    sum == 50 + keyword + digit
                IN  /\ last.results[i].confidence = IF sum > 95 THEN 95 ELSE sum
                    /\ last.results[i].confidence >= 50

\* C26: the text of every returned field is at most 200 characters long and
\* is the first 200 characters of the matched text; the confidence is
\* computed from the whole matched text.
C26_TextTruncatedConfidenceFromFull ==
    last.op \in {"extract", "extract_returned"} =>
        \A i \in 1..Len(last.results) :
            /\ Len(last.results[i].text) <= 200
            /\ last.hits[i] =>
                  /\ last.results[i].text =
                         SubSeq(last.full[i][1], 1, Min(200, Len(last.full[i][1])))
                  /\ last.results[i].confidence =
                         CalculateConfidence(last.full[i][1], Components[i])

\* C26 witness: a returned field whose matched text was longer than 200 and
\* whose confidence counts the digits beyond the cut.
C26_Witness ==
    /\ last.op = "extract_returned"
    /\ last.hits[4]
    /\ Len(last.full[4][1]) > 200
    /\ Len(last.results[4].text) = 200
    /\ last.results[4].confidence = 60

C28_OwnDocumentConverted ==
    /\ \A t \in DOMAIN proc :
        (proc[t].op = "process" /\ proc[t].pc = "returned") =>
            proc[t].ret = <<DocData(proc[t].content)>>
    /\ \A d \in Docs :
        fs.cache[CachePath(d)].fmt = "pickle" => fs.cache[CachePath(d)].data = DocData(d)

\* C29: when the caller has changed in place the list the index was built
\* from and calls search or get_similarity_scores with it, the store
\* rebuilds: after the call the index is the index of the list as it is now.
C29_InPlaceChangeDetected ==
    (/\ last.op \in {"search", "get_similarity_scores"}
     /\ last.enc = "ok"
     /\ last.chunks \in Indexable
     /\ last.before.index # None
     /\ last.before.index # Some(IndexFlatL2(Encode(last.chunks)))) =>
        /\ last.rebuilt
        /\ store.index = Some(IndexFlatL2(Encode(last.chunks)))

\* C30: when process has failed for some document bytes, no cache entry
\* written by that call exists for those bytes afterwards.
C30_FailedProcessLeavesNoEntry ==
    \A t \in DOMAIN proc :
        (proc[t].op = "process" /\ proc[t].pc = "raised") =>
            LET entry == fs.cache[CachePath(proc[t].content)] IN
            entry = Absent \/ entry.by # t

====
